---- MODULE Spec2Model ----
(***************************************************************************)
(* Completion handler of helix-term (handlers/completion.rs): the trigger  *)
(* evaluator, the post-command / mode-switch / insert-char hooks, the      *)
(* response collector and the popup reconciliation closures.               *)
(***************************************************************************)
EXTENDS Integers, Sequences, FiniteSets, TLC

VARIABLES
    mode,            \* editor.mode
    curView,         \* id of the focused view
    curDoc,          \* id of the focused document
    text,            \* document text before the primary cursor (cursor = Len(text))
    config,          \* editor.config plus the document's provider capabilities
    completion,      \* editor_view.completion: NoPopup or the open popup
    last_completion, \* editor.last_completion.is_some()
    sigHelp,         \* signature-help popup: "none", "overlap" or "apart"
    waves,           \* the replace_completions futures, one per request wave
    jobs,            \* closures queued by dispatch() for the owner thread (FIFO)
    callbacks,       \* cx.callback: closures queued by the hooks of one key event
    newest,          \* per controller, the wave holding the handle it gave out last
    pendingSwitch,   \* old mode of a mode switch whose OnModeSwitch hook is due
    emitted,         \* CompletionEvents sent by the last owner-thread step
    last             \* the last owner-thread step and the inputs it was called with

vars == <<mode, curView, curDoc, text, config, completion, last_completion,
          sigHelp, waves, newest, jobs, callbacks, pendingSwitch, emitted, last>>

(*************************** bounds and domains ****************************)
MaxText == 2
MaxTrigText == 3
MaxTrigLen == 2
MaxJobs == 2

Modes == {"Insert", "Normal", "Select"}
Views == {"v1", "v2"}
Docs == {"d1", "d2"}
Providers == {"Lsp", "Path"}
SavePoints == {"sp1", "sp2"}
Chars == {"a", ".", ":", "/", "\\", " "}
TypedChars == {"a", "."}
NoPopup == [open |-> FALSE]
\* Option<char>: None and Some(c)
NoArg == [some |-> FALSE, char |-> ""]
Some(c) == [some |-> TRUE, char |-> c]

SeqsUpTo(S, n) == UNION {[1..k -> S] : k \in 0..n}

(***************************** pure helpers ********************************)
\* helix_core::chars::char_is_word on the modelled alphabet
char_is_word(c) == c = "a"

\* RopeSlice::ends_with: txt ends with the string trig
EndsWith(txt, trig) ==
    /\ Len(trig) <= Len(txt)
    /\ SubSeq(txt, Len(txt) - Len(trig) + 1, Len(txt)) = trig

Min(a, b) == IF a <= b THEN a ELSE b

\* chars_at(cursor).reversed().take(n): the (at most n) characters before the cursor
TakeReversed(txt, n) == {txt[i] : i \in (Len(txt) - Min(n, Len(txt)) + 1)..Len(txt)}

\* any language server whose capabilities declare a trigger string the text ends with
IsTriggerChar(cfg, txt) ==
    \E ls \in cfg.servers : \E trigger \in ls : EndsWith(txt, trigger)

\* the byte before the cursor is a path separator (cfg(windows) adds the backslash)
IsPathCompletionTrigger(cfg, txt) ==
    /\ Len(txt) > 0
    /\ \/ txt[Len(txt)] = "/"
       \/ cfg.windows /\ txt[Len(txt)] = "\\"

IsAutoTrigger(cfg, txt, trigger_char_only) ==
    /\ ~trigger_char_only
    /\ \A c \in TakeReversed(txt, cfg.completion_trigger_len) : char_is_word(c)

\* a CompletionEvent as sent with send_blocking; m is the editor mode at that moment
Event(kind, cursor, doc, view, m, by) ==
    [kind |-> kind, cursor |-> cursor, doc |-> doc, view |-> view, mode |-> m, by |-> by]

\* as trigger_auto_completion, without asking doc.path_completion_enabled()
TriggerAutoCompletionAnyPath(cfg, txt, view, doc, m, trigger_char_only, by) ==
    IF ~cfg.auto_completion THEN <<>>
    ELSE IF IsTriggerChar(cfg, txt) \/ IsPathCompletionTrigger(cfg, txt)
         THEN <<Event("TriggerChar", Len(txt), doc, view, m, by)>>
         ELSE IF IsAutoTrigger(cfg, txt, trigger_char_only)
              THEN <<Event("AutoTrigger", Len(txt), doc, view, m, by)>>
              ELSE <<>>

\* trigger_auto_completion: the events it sends (at most one)
TriggerAutoCompletion(cfg, txt, view, doc, m, trigger_char_only, by) ==
    IF ~cfg.auto_completion THEN <<>>
    ELSE IF IsTriggerChar(cfg, txt)
            \/ (IsPathCompletionTrigger(cfg, txt) /\ cfg.path_completion)
         THEN <<Event("TriggerChar", Len(txt), doc, view, m, by)>>
         ELSE IF IsAutoTrigger(cfg, txt, trigger_char_only)
              THEN <<Event("AutoTrigger", Len(txt), doc, view, m, by)>>
              ELSE <<>>

(************************ popup (ui::Completion) ***************************)
Items == {<<"a">>, <<"a", "a">>}
ItemSets == {{}, {<<"a">>}, {<<"a", "a">>}}
EmptyItems == [p \in Providers |-> {}]

\* an item is shown while the filter is a prefix of it
Matches(filter, item) ==
    /\ Len(filter) <= Len(item)
    /\ SubSeq(item, 1, Len(filter)) = filter

\* Completion::is_empty: no item of any provider passes the filter
IsEmpty(comp) ==
    \A p \in Providers : \A it \in comp.items[p] : ~Matches(comp.filter, it)

\* Completion::replace_provider_completions: the provider's contribution is
\* replaced and its incomplete entry updated
ReplaceProviderCompletions(comp, response) ==
    [comp EXCEPT !.items[response.provider] = response.items,
                 !.incomplete[response.provider] = response.incomplete]

\* Completion::update_filter: push the character, or pop the last one; a pop that
\* leaves the filter empty leaves the popup with nothing to show
UpdateFilter(comp, c) ==
    IF ~c.some
    THEN LET popped == IF Len(comp.filter) = 0 THEN comp.filter
                       ELSE SubSeq(comp.filter, 1, Len(comp.filter) - 1)
         IN [comp EXCEPT !.filter = popped,
                         !.items = IF popped = <<>> THEN EmptyItems ELSE @]
    ELSE [comp EXCEPT !.filter = Append(@, c.char)]

\* the popup EditorView::set_completion builds from a first batch
NewCompletion(items, incomplete_completion_lists, savepoint) ==
    [open |-> TRUE, items |-> items, filter |-> <<>>,
     incomplete |-> incomplete_completion_lists, savepoint |-> savepoint]

(************************ waves and task handles ***************************)
\* one slot per replace_completions future; canceled is TaskHandle::is_canceled
\* of the handle the future was given
\* nfin counts the tasks that finished, fwd the closures the future dispatched,
\* nrec the closures of the wave that ran and lastn the rank of the last one
IdleWave ==
    [status |-> "unused", ctl |-> "request", canceled |-> FALSE,
     incomplete |-> FALSE, pending |-> {}, done |-> <<>>,
     nfin |-> 0, fwd |-> 0, nrec |-> 0, lastn |-> 0]

\* n is the rank of the response among the finished tasks of its wave
Response(p, items, inc, n) ==
    [ok |-> TRUE, provider |-> p, items |-> items, incomplete |-> inc, n |-> n]
Failure(p, n) ==
    [ok |-> FALSE, provider |-> p, items |-> {}, incomplete |-> FALSE, n |-> n]

WaveIds == DOMAIN waves

HasJob(w) == \E i \in 1..Len(jobs) : jobs[i].kind = "replace" /\ jobs[i].wave = w

\* a slot can be taken again once its future ended and none of its closures is queued
FreeSlot(w) == waves[w].status \in {"unused", "done", "panicked"} /\ ~HasJob(w)

\* TaskController::restart / cancel: every handle the controller gave out is canceled
CancelCtl(ws, ctl) ==
    [w \in WaveIds |->
        IF ws[w].status # "unused" /\ ws[w].ctl = ctl
        THEN [ws[w] EXCEPT !.canceled = TRUE] ELSE ws[w]]

CancelAll(ws) == CancelCtl(CancelCtl(ws, "request"), "incomplete")

NewWave(ctl, incomplete, providers) ==
    [IdleWave EXCEPT !.status = "running", !.ctl = ctl,
                     !.incomplete = incomplete, !.pending = providers]

OwnerIdle == callbacks = <<>> /\ pendingSwitch = "none"

OwnerFrame == UNCHANGED <<mode, curView, curDoc, text, config, completion,
                          last_completion, sigHelp, callbacks, pendingSwitch>>

Controllers == {"request", "incomplete"}

\* as handle_response, without looking at its `incomplete` argument
HandleResponseKeepsAnyFlag(incomplete, response) ==
    ~(~response.incomplete /\ response.items = {})

\* handle_response keeps the response (does not `continue`)
HandleResponseKeeps(incomplete, response) ==
    ~(~incomplete /\ ~response.incomplete /\ response.items = {})

\* a provider task of the JoinSet finishes with a response
TaskFinish(w, p, items, inc) ==
    /\ waves[w].status = "running"
    /\ p \in waves[w].pending
    /\ LET r == Response(p, items, inc, waves[w].nfin + 1)
       IN waves' = [waves EXCEPT
                       ![w].pending = @ \ {p},
                       ![w].done = Append(@, r),
                       ![w].nfin = @ + 1]
    /\ UNCHANGED <<emitted, last, newest, jobs>>
    /\ OwnerFrame

\* a provider task panics: join_next yields Err
TaskFail(w, p) ==
    /\ waves[w].status = "running"
    /\ p \in waves[w].pending
    /\ waves' = [waves EXCEPT ![w].pending = @ \ {p},
                              ![w].done = Append(@, Failure(p, waves[w].nfin + 1)),
                              ![w].nfin = @ + 1]
    /\ UNCHANGED <<emitted, last, newest, jobs>>
    /\ OwnerFrame

\* handle_response: join_next returned an empty, complete response; loop again
CollectorDiscard(w) ==
    /\ waves[w].status = "running"
    /\ waves[w].done # <<>>
    /\ Head(waves[w].done).ok
    /\ ~HandleResponseKeeps(waves[w].incomplete, Head(waves[w].done))
    /\ waves' = [waves EXCEPT ![w].done = Tail(@)]
    /\ UNCHANGED <<emitted, last, newest, jobs>>
    /\ OwnerFrame

\* as CollectorForward, with the closure put in front of the queue
CollectorForwardInFront(w) ==
    /\ waves[w].status = "running"
    /\ waves[w].done # <<>>
    /\ Head(waves[w].done).ok
    /\ HandleResponseKeeps(waves[w].incomplete, Head(waves[w].done))
    /\ Len(jobs) < MaxJobs
    /\ jobs' = <<[kind |-> "replace", wave |-> w,
                  response |-> Head(waves[w].done)]>> \o jobs
    /\ waves' = [waves EXCEPT ![w].done = Tail(@), ![w].fwd = @ + 1]
    /\ UNCHANGED <<emitted, last, newest>>
    /\ OwnerFrame

\* replace_completions: handle_response returned Some(response); the closure is
\* sent to the job queue with dispatch()
CollectorForward(w) ==
    /\ waves[w].status = "running"
    /\ waves[w].done # <<>>
    /\ Head(waves[w].done).ok
    /\ HandleResponseKeeps(waves[w].incomplete, Head(waves[w].done))
    /\ Len(jobs) < MaxJobs
    /\ jobs' = Append(jobs, [kind |-> "replace", wave |-> w,
                             response |-> Head(waves[w].done)])
    /\ waves' = [waves EXCEPT ![w].done = Tail(@), ![w].fwd = @ + 1]
    /\ UNCHANGED <<emitted, last, newest>>
    /\ OwnerFrame

\* as CollectorPanic, but the failed task is skipped and the loop goes on
CollectorSkipsFailure(w) ==
    /\ waves[w].status = "running"
    /\ waves[w].done # <<>>
    /\ ~Head(waves[w].done).ok
    /\ waves' = [waves EXCEPT ![w].done = Tail(@)]
    /\ UNCHANGED <<emitted, last, newest, jobs>>
    /\ OwnerFrame

\* join_next().await?.unwrap() on a failed task: the future panics and its
\* JoinSet is dropped, which aborts the tasks still pending
CollectorPanic(w) ==
    /\ waves[w].status = "running"
    /\ waves[w].done # <<>>
    /\ ~Head(waves[w].done).ok
    /\ waves' = [waves EXCEPT ![w].status = "panicked", ![w].pending = {},
                              ![w].done = <<>>]
    /\ UNCHANGED <<emitted, last, newest, jobs>>
    /\ OwnerFrame

\* as CollectorEnd, but a canceled future never leaves its loop
CollectorEndUnlessCanceled(w) ==
    /\ waves[w].status = "running"
    /\ ~waves[w].canceled
    /\ waves[w].done = <<>>
    /\ waves[w].pending = {}
    /\ waves' = [waves EXCEPT ![w].status = "done"]
    /\ UNCHANGED <<emitted, last, newest, jobs>>
    /\ OwnerFrame

\* join_next returned None: the JoinSet is empty, the while-let loop ends
CollectorEnd(w) ==
    /\ waves[w].status = "running"
    /\ waves[w].done = <<>>
    /\ waves[w].pending = {}
    /\ waves' = [waves EXCEPT ![w].status = "done"]
    /\ UNCHANGED <<emitted, last, newest, jobs>>
    /\ OwnerFrame

(********************* closures run on the owner thread ********************)
\* as ClosureReturnsEarly, without the handle.is_canceled() check
ClosureReturnsEarlyUnchecked(comp, canceled) == ~comp.open

\* the closure of replace_completions returns before touching the popup: no
\* popup exists, or the handle is canceled
ClosureReturnsEarly(comp, canceled) == ~comp.open \/ canceled

LogReconciled(ws, w, response) ==
    [ws EXCEPT ![w].nrec = @ + 1, ![w].lastn = response.n]

\* as RunReplaceClosure, without the call of trigger_auto_completion
RunReplaceClosureNoRetrigger ==
    /\ OwnerIdle
    /\ jobs # <<>>
    /\ Head(jobs).kind = "replace"
    /\ LET job == Head(jobs)
           w == job.wave
           merged == ReplaceProviderCompletions(completion, job.response)
           logged == LogReconciled(waves, w, job.response)
       IN /\ jobs' = Tail(jobs)
          /\ last' = [op |-> "replace_closure", wave |-> w, n |-> job.response.n,
                      items |-> job.response.items,
                      canceled |-> waves[w].canceled, open |-> completion.open]
          /\ IF ClosureReturnsEarly(completion, waves[w].canceled)
             THEN /\ completion' = completion
                  /\ last_completion' = last_completion
                  /\ waves' = logged
             ELSE IF IsEmpty(merged)
             THEN /\ completion' = NoPopup
                  /\ last_completion' = FALSE
                  /\ waves' = CancelAll(logged)
             ELSE /\ completion' = merged
                  /\ last_completion' = last_completion
                  /\ waves' = logged
    /\ emitted' = <<>>
    /\ UNCHANGED <<mode, curView, curDoc, text, config, sigHelp, newest, callbacks,
                   pendingSwitch>>

\* as RunReplaceClosure, but without a popup a response with items opens one
RunReplaceClosureOpening ==
    /\ OwnerIdle
    /\ jobs # <<>>
    /\ Head(jobs).kind = "replace"
    /\ LET job == Head(jobs)
           w == job.wave
           fresh == NewCompletion([EmptyItems EXCEPT ![job.response.provider] =
                                      job.response.items],
                                  [p \in Providers |-> FALSE], "sp1")
           merged == ReplaceProviderCompletions(
                         IF completion.open THEN completion ELSE fresh, job.response)
           logged == LogReconciled(waves, w, job.response)
       IN /\ jobs' = Tail(jobs)
          /\ last' = [op |-> "replace_closure", wave |-> w, n |-> job.response.n,
                      items |-> job.response.items,
                      canceled |-> waves[w].canceled, open |-> completion.open]
          /\ IF waves[w].canceled \/ (~completion.open /\ job.response.items = {})
             THEN /\ completion' = completion
                  /\ last_completion' = last_completion
                  /\ waves' = logged
                  /\ emitted' = <<>>
             ELSE IF IsEmpty(merged)
             THEN /\ completion' = NoPopup
                  /\ last_completion' = FALSE
                  /\ waves' = CancelAll(logged)
                  /\ emitted' = TriggerAutoCompletion(config, text, curView, curDoc,
                                                      mode, FALSE, "replace_closure")
             ELSE /\ completion' = merged
                  /\ last_completion' = TRUE
                  /\ waves' = logged
                  /\ emitted' = <<>>
    /\ UNCHANGED <<mode, curView, curDoc, text, config, sigHelp, newest, callbacks,
                   pendingSwitch>>

\* the closure dispatched by replace_completions, run from the job queue
RunReplaceClosure ==
    /\ OwnerIdle
    /\ jobs # <<>>
    /\ Head(jobs).kind = "replace"
    /\ LET job == Head(jobs)
           w == job.wave
           merged == ReplaceProviderCompletions(completion, job.response)
           logged == LogReconciled(waves, w, job.response)
       IN /\ jobs' = Tail(jobs)
          /\ last' = [op |-> "replace_closure", wave |-> w, n |-> job.response.n,
                      items |-> job.response.items,
                      canceled |-> waves[w].canceled, open |-> completion.open]
          /\ IF ClosureReturnsEarly(completion, waves[w].canceled)
             THEN /\ completion' = completion
                  /\ last_completion' = last_completion
                  /\ waves' = logged
                  /\ emitted' = <<>>
             ELSE IF IsEmpty(merged)
             THEN \* editor_view.clear_completion, then trigger_auto_completion
                  /\ completion' = NoPopup
                  /\ last_completion' = FALSE
                  /\ waves' = CancelAll(logged)
                  /\ emitted' = TriggerAutoCompletion(config, text, curView, curDoc,
                                                      mode, FALSE, "replace_closure")
             ELSE /\ completion' = merged
                  /\ last_completion' = last_completion
                  /\ waves' = logged
                  /\ emitted' = <<>>
    /\ UNCHANGED <<mode, curView, curDoc, text, config, sigHelp, newest, callbacks,
                   pendingSwitch>>

\* as ShowIsStale, without comparing the document
ShowIsStaleByViewOnly(m, view, doc, trigger) ==
    m # "Insert" \/ view # trigger.view

\* show_completion's staleness check: the batch is rejected
ShowIsStale(m, view, doc, trigger) ==
    m # "Insert" \/ view # trigger.view \/ doc # trigger.doc

\* set_completion opens no popup (and yields no area) for a batch without items
BatchHasItems(items) == \E p \in Providers : items[p] # {}

\* as ShowOutcome, without the check for an open popup
ShowOutcomeOverwriting(m, view, doc, comp, job) ==
    IF ShowIsStale(m, view, doc, job.trigger) THEN "stale"
    ELSE IF ~BatchHasItems(job.items) THEN "noarea"
    ELSE "opened"

\* how show_completion ends: at the staleness check, at the open popup, in
\* set_completion without a popup, or with the popup opened
ShowOutcome(m, view, doc, comp, job) ==
    IF ShowIsStale(m, view, doc, job.trigger) THEN "stale"
    ELSE IF comp.open THEN "occupied"
    ELSE IF ~BatchHasItems(job.items) THEN "noarea"
    ELSE "opened"

\* as SignatureHelpAfter, without asking whether the areas intersect
SignatureHelpAfterAnyArea(outcome, sig) ==
    IF outcome = "opened" THEN "none" ELSE sig

\* the signature help popup after show_completion: removed if set_completion gave
\* an area and the two areas intersect
SignatureHelpAfter(outcome, sig) ==
    IF outcome = "opened" /\ sig = "overlap" THEN "none" ELSE sig

\* show_completion, run from the job queue
RunShowCompletion ==
    /\ OwnerIdle
    /\ jobs # <<>>
    /\ Head(jobs).kind = "show"
    /\ LET job == Head(jobs)
           outcome == ShowOutcome(mode, curView, curDoc, completion, job)
       IN /\ jobs' = Tail(jobs)
          /\ last' = [op |-> "show_completion", result |-> outcome,
                      trigger |-> job.trigger, savepoint |-> job.savepoint,
                      nonempty |-> BatchHasItems(job.items), sig |-> sigHelp]
          /\ IF outcome = "opened"
             THEN /\ completion' = NewCompletion(job.items, job.incomplete,
                                                 job.savepoint)
                  /\ last_completion' = TRUE
             ELSE UNCHANGED <<completion, last_completion>>
          /\ sigHelp' = SignatureHelpAfter(outcome, sigHelp)
    /\ emitted' = <<>>
    /\ UNCHANGED <<mode, curView, curDoc, text, config, waves, newest, callbacks,
                   pendingSwitch>>

(******************************* hooks *************************************)
Commands ==
    {"delete_word_forward", "delete_char_forward", "completion",
     "delete_char_backward", "insert_mode", "append_mode", "normal_mode",
     "select_mode", "move_char_left", "goto_next_buffer", "rotate_view"}

Front(t) == IF Len(t) = 0 THEN t ELSE SubSeq(t, 1, Len(t) - 1)
Other(S, x) == CHOOSE y \in S : y # x

\* what executing the command does to the editor, before the hooks run
CommandMode(c, m) ==
    CASE c \in {"insert_mode", "append_mode"} -> "Insert"
      [] c = "normal_mode" -> "Normal"
      [] c = "select_mode" -> "Select"
      [] OTHER -> m
CommandText(c, t) ==
    CASE c \in {"delete_char_backward", "move_char_left"} -> Front(t)
      [] c \in {"goto_next_buffer", "rotate_view"} -> <<>>
      [] OTHER -> t
CommandDoc(c, d) == IF c = "goto_next_buffer" THEN Other(Docs, d) ELSE d
CommandView(c, v) == IF c = "rotate_view" THEN Other(Views, v) ELSE v

ClearCallback == [kind |-> "clear", c |-> NoArg]
FilterCallback(c) == [kind |-> "update_filter", c |-> c]
Nothing == [events |-> <<>>, callbacks |-> <<>>]

\* as PostCommandHook, without the check for insert mode
PostCommandHookAnyMode(c, m, session, cursor) ==
    IF session
    THEN CASE c \in {"delete_word_forward", "delete_char_forward", "completion"} ->
                Nothing
           [] c = "delete_char_backward" ->
                [events |-> <<>>, callbacks |-> <<FilterCallback(NoArg)>>]
           [] OTHER ->
                [events |-> <<>>, callbacks |-> <<ClearCallback>>]
    ELSE CASE c \in {"delete_char_backward", "delete_word_forward",
                     "delete_char_forward"} ->
                [events |-> <<Event("DeleteText", cursor, "-", "-", m, "post_command")>>,
                 callbacks |-> <<>>]
           [] c \in {"completion", "insert_mode", "append_mode"} -> Nothing
           [] OTHER ->
                [events |-> <<Event("Cancel", -1, "-", "-", m, "post_command")>>,
                 callbacks |-> <<>>]

\* as PostCommandHook, but with a session only normal_mode clears it
PostCommandHookKeepsSession(c, m, session, cursor) ==
    IF m # "Insert" THEN Nothing
    ELSE IF session
    THEN CASE c = "delete_char_backward" ->
                [events |-> <<>>, callbacks |-> <<FilterCallback(NoArg)>>]
           [] c = "normal_mode" ->
                [events |-> <<>>, callbacks |-> <<ClearCallback>>]
           [] OTHER -> Nothing
    ELSE CASE c \in {"delete_char_backward", "delete_word_forward",
                     "delete_char_forward"} ->
                [events |-> <<Event("DeleteText", cursor, "-", "-", m, "post_command")>>,
                 callbacks |-> <<>>]
           [] c \in {"completion", "insert_mode", "append_mode"} -> Nothing
           [] OTHER ->
                [events |-> <<Event("Cancel", -1, "-", "-", m, "post_command")>>,
                 callbacks |-> <<>>]

\* as PostCommandHook, without the arm for completion, insert_mode and append_mode
PostCommandHookCancelsAll(c, m, session, cursor) ==
    IF m # "Insert" THEN Nothing
    ELSE IF session
    THEN CASE c \in {"delete_word_forward", "delete_char_forward", "completion"} ->
                Nothing
           [] c = "delete_char_backward" ->
                [events |-> <<>>, callbacks |-> <<FilterCallback(NoArg)>>]
           [] OTHER ->
                [events |-> <<>>, callbacks |-> <<ClearCallback>>]
    ELSE CASE c \in {"delete_char_backward", "delete_word_forward",
                     "delete_char_forward"} ->
                [events |-> <<Event("DeleteText", cursor, "-", "-", m, "post_command")>>,
                 callbacks |-> <<>>]
           [] OTHER ->
                [events |-> <<Event("Cancel", -1, "-", "-", m, "post_command")>>,
                 callbacks |-> <<>>]

\* completion_post_command_hook: the events it sends and the callbacks it pushes
PostCommandHook(c, m, session, cursor) ==
    IF m # "Insert" THEN Nothing
    ELSE IF session
    THEN CASE c \in {"delete_word_forward", "delete_char_forward", "completion"} ->
                Nothing
           [] c = "delete_char_backward" ->
                [events |-> <<>>, callbacks |-> <<FilterCallback(NoArg)>>]
           [] OTHER ->
                [events |-> <<>>, callbacks |-> <<ClearCallback>>]
    ELSE CASE c \in {"delete_char_backward", "delete_word_forward",
                     "delete_char_forward"} ->
                [events |-> <<Event("DeleteText", cursor, "-", "-", m, "post_command")>>,
                 callbacks |-> <<>>]
           [] c \in {"completion", "insert_mode", "append_mode"} -> Nothing
           [] OTHER ->
                [events |-> <<Event("Cancel", -1, "-", "-", m, "post_command")>>,
                 callbacks |-> <<>>]

NeedsSlot(cbs) == \E i \in 1..Len(cbs) : cbs[i].kind = "update_filter"

\* a key runs a command; the PostCommand hook sees the editor as the command left it
Command(c) ==
    /\ OwnerIdle
    /\ LET m2 == CommandMode(c, mode)
           t2 == CommandText(c, text)
           hook == PostCommandHook(c, m2, last_completion, Len(t2))
       IN /\ NeedsSlot(hook.callbacks) => \E w \in WaveIds : FreeSlot(w)
          /\ mode' = m2
          /\ text' = t2
          /\ curDoc' = CommandDoc(c, curDoc)
          /\ curView' = CommandView(c, curView)
          /\ emitted' = hook.events
          /\ callbacks' = hook.callbacks
          /\ pendingSwitch' = IF m2 # mode THEN mode ELSE "none"
          /\ last' = [op |-> "post_command", command |-> c]
    /\ UNCHANGED <<config, completion, last_completion, sigHelp, waves, newest, jobs>>

\* as ModeSwitch, but leaving insert mode only sends Cancel
ModeSwitchKeepsPopup ==
    /\ pendingSwitch # "none"
    /\ LET old_mode == pendingSwitch
           new_mode == mode
       IN /\ IF old_mode = "Insert"
             THEN emitted' = <<Event("Cancel", -1, "-", "-", mode, "mode_switch")>>
             ELSE IF new_mode = "Insert"
             THEN emitted' = TriggerAutoCompletion(config, text, curView, curDoc,
                                                   mode, FALSE, "mode_switch")
             ELSE emitted' = <<>>
          /\ last' = [op |-> "mode_switch", old_mode |-> old_mode]
    /\ pendingSwitch' = "none"
    /\ UNCHANGED <<mode, curView, curDoc, text, config, completion, callbacks,
                   last_completion, sigHelp, waves, newest, jobs>>

\* the OnModeSwitch hook registered by register_hooks
ModeSwitch ==
    /\ pendingSwitch # "none"
    /\ LET old_mode == pendingSwitch
           new_mode == mode
       IN /\ IF old_mode = "Insert"
             THEN /\ emitted' = <<Event("Cancel", -1, "-", "-", mode, "mode_switch")>>
                  /\ callbacks' = Append(callbacks, ClearCallback)
             ELSE IF new_mode = "Insert"
             THEN /\ emitted' = TriggerAutoCompletion(config, text, curView, curDoc,
                                                      mode, FALSE, "mode_switch")
                  /\ callbacks' = callbacks
             ELSE /\ emitted' = <<>>
                  /\ callbacks' = callbacks
          /\ last' = [op |-> "mode_switch", old_mode |-> old_mode]
    /\ pendingSwitch' = "none"
    /\ UNCHANGED <<mode, curView, curDoc, text, config, completion,
                   last_completion, sigHelp, waves, newest, jobs>>

\* a character is typed in insert mode; the PostInsertChar hook of register_hooks
InsertChar(ch) ==
    /\ OwnerIdle
    /\ mode = "Insert"
    /\ Len(text) < MaxText
    /\ last_completion => \E w \in WaveIds : FreeSlot(w)
    /\ text' = Append(text, ch)
    /\ IF last_completion
       THEN /\ callbacks' = <<FilterCallback(Some(ch))>>
            /\ emitted' = <<>>
       ELSE /\ callbacks' = callbacks
            /\ emitted' = TriggerAutoCompletion(config, text', curView, curDoc,
                                                mode, FALSE, "post_insert_char")
    /\ last' = [op |-> "post_insert_char"]
    /\ UNCHANGED <<mode, curView, curDoc, config, completion, last_completion,
                   sigHelp, waves, newest, jobs, pendingSwitch>>

\* request_incomplete_completion_list: one task per provider whose list is incomplete
IncompleteProviders(comp) == {p \in Providers : comp.incomplete[p]}
TakeSlot == CHOOSE x \in WaveIds : FreeSlot(x)
StartIncompleteWave(ws, comp) ==
    IF IncompleteProviders(comp) = {} THEN ws
    ELSE [ws EXCEPT ![TakeSlot] = NewWave("incomplete", TRUE,
                                           IncompleteProviders(comp))]

\* as FilterRetriggers, for a deleted character too
FilterRetriggersAlways(c) == TRUE

\* a filter update that closed the session re-runs trigger_auto_completion
FilterRetriggers(c) == c.some

\* as FilterCloses, for a popup left empty only
FilterClosesWhenEmpty(ui, c) == IsEmpty(ui)

\* the filter update closes the session
FilterCloses(ui, c) == IsEmpty(ui) \/ (c.some /\ ~char_is_word(c.char))

\* the closures pushed by update_completion_filter and clear_completions
RunCallback ==
    /\ pendingSwitch = "none"
    /\ callbacks # <<>>
    /\ LET cb == Head(callbacks)
           ui == UpdateFilter(completion, cb.c)
       IN /\ callbacks' = Tail(callbacks)
          /\ last' = [op |-> "callback", kind |-> cb.kind, c |-> cb.c,
                      open |-> completion.open]
          /\ IF cb.kind = "clear"
             THEN /\ completion' = NoPopup
                  /\ last_completion' = FALSE
                  /\ waves' = CancelAll(waves)
                  /\ newest' = newest
                  /\ emitted' = <<>>
             ELSE IF ~completion.open
             THEN /\ UNCHANGED <<completion, last_completion, waves, newest>>
                  /\ emitted' = <<>>
             ELSE IF FilterCloses(ui, cb.c)
             THEN /\ completion' = NoPopup
                  /\ last_completion' = FALSE
                  /\ waves' = CancelAll(waves)
                  /\ newest' = newest
                  /\ emitted' = IF FilterRetriggers(cb.c)
                                THEN TriggerAutoCompletion(config, text, curView, curDoc,
                                                           mode, FALSE, "update_filter")
                                ELSE <<>>
             ELSE /\ completion' = ui
                  /\ last_completion' = last_completion
                  /\ waves' = StartIncompleteWave(CancelCtl(waves, "incomplete"), ui)
                  /\ newest' = IF IncompleteProviders(ui) = {} THEN newest
                                ELSE [newest EXCEPT !["incomplete"] = TakeSlot]
                  /\ emitted' = <<>>
    /\ UNCHANGED <<mode, curView, curDoc, text, config, sigHelp, jobs, pendingSwitch>>


(******************** the request-issuing collaborator *********************)
ShowBatches ==
    {EmptyItems,
     [p \in Providers |-> IF p = "Lsp" THEN {<<"a">>} ELSE {}],
     [p \in Providers |-> IF p = "Lsp" THEN {<<"a">>} ELSE {<<"a", "a">>}]}
IncompleteLists == {[p \in Providers |-> p \in S] : S \in {{}, {"Lsp"}}}
Triggers == [view : Views, doc : Docs, pos : {0, MaxText}]

\* the first batch of a request is handed to show_completion with dispatch()
DispatchShow(items, incs, trigger, savepoint) ==
    /\ Len(jobs) < MaxJobs
    /\ \A i \in 1..Len(jobs) : jobs[i].kind # "show"
    /\ jobs' = Append(jobs, [kind |-> "show", items |-> items, incomplete |-> incs,
                             trigger |-> trigger, savepoint |-> savepoint])
    /\ UNCHANGED <<emitted, last, waves, newest>>
    /\ OwnerFrame

\* the signature help handler shows, moves or closes its popup
SignatureHelp(s) ==
    /\ OwnerIdle
    /\ sigHelp # s
    /\ sigHelp' = s
    /\ emitted' = <<>>
    /\ last' = [op |-> "signature_help"]
    /\ UNCHANGED <<mode, curView, curDoc, text, config, completion,
                   last_completion, waves, newest, jobs, callbacks, pendingSwitch>>

\* the rest of a request's tasks is handed to replace_completions(handle, requests,
\* false); the handle comes from restarting the request controller
StartRequestWave(providers) ==
    /\ OwnerIdle
    /\ providers # {}
    /\ \E w \in WaveIds : FreeSlot(w)
    /\ waves' = [CancelCtl(waves, "request") EXCEPT
                     ![TakeSlot] = NewWave("request", FALSE, providers)]
    /\ newest' = [newest EXCEPT !["request"] = TakeSlot]
    /\ UNCHANGED <<emitted, last, jobs>>
    /\ OwnerFrame

(**************************** specifications *******************************)
DefaultConfig ==
    [auto_completion |-> TRUE, completion_trigger_len |-> 2,
     servers |-> {{<<".">>}}, path_completion |-> TRUE, windows |-> FALSE]

InitWith(m, slots, sigs) ==
    /\ mode = m
    /\ curView = "v1"
    /\ curDoc = "d1"
    /\ text = <<>>
    /\ config = DefaultConfig
    /\ completion = NoPopup
    /\ last_completion = FALSE
    /\ sigHelp \in sigs
    /\ waves = [w \in slots |-> IdleWave]
    /\ newest = [c \in Controllers |-> "none"]
    /\ jobs = <<>>
    /\ callbacks = <<>>
    /\ pendingSwitch = "none"
    /\ emitted = <<>>
    /\ last = [op |-> "init"]

\* the hooks and the callbacks they push
HookSteps(cmds, chars) ==
    \/ \E c \in cmds : Command(c)
    \/ \E ch \in chars : InsertChar(ch)
    \/ RunCallback

\* a first batch reaches show_completion
ShowSteps(batches, incs, triggers, savepoints) ==
    \/ \E items \in batches, inc \in incs, trigger \in triggers,
          savepoint \in savepoints : DispatchShow(items, inc, trigger, savepoint)
    \/ RunShowCompletion

\* a wave of provider tasks is collected and reconciled
WaveSteps(provsets, itemsets, incflags) ==
    \/ \E providers \in provsets : StartRequestWave(providers)
    \/ \E w \in WaveIds, p \in Providers, items \in itemsets, inc \in incflags :
          TaskFinish(w, p, items, inc)
    \/ \E w \in WaveIds, p \in Providers : TaskFail(w, p)
    \/ \E w \in WaveIds : CollectorDiscard(w)
    \/ \E w \in WaveIds : CollectorForward(w)
    \/ \E w \in WaveIds : CollectorPanic(w)
    \/ \E w \in WaveIds : CollectorEnd(w)
    \/ RunReplaceClosure

LspIncomplete == [p \in Providers |-> p = "Lsp"]
HomeTrigger == [view |-> "v1", doc |-> "d1", pos |-> 0]

(* Spec: every hook, callback and closure, one wave at a time. *)
MainCommands ==
    {"delete_char_forward", "delete_char_backward", "insert_mode", "normal_mode",
     "move_char_left"}

Init == InitWith("Normal", {"w1"}, {"none"})
Next ==
    \/ HookSteps(MainCommands, TypedChars)
    \/ ModeSwitch
    \/ ShowSteps(ShowBatches, {LspIncomplete}, {HomeTrigger}, {"sp1"})
    \/ WaveSteps({{"Lsp"}}, {{}, {<<"a">>}}, BOOLEAN)

Spec == Init /\ [][Next]_vars

(* SpecWave: two waves side by side in insert mode, so that a wave can be     *)
(* superseded while its tasks, responses and closures are still on their way. *)
WaveCommands == {"delete_char_backward", "move_char_left"}

InitWave == InitWith("Insert", {"w1", "w2"}, {"none"})
NextWave ==
    \/ HookSteps(WaveCommands, {"a"})
    \/ ShowSteps({[p \in Providers |-> {<<"a", "a">>}]}, {LspIncomplete},
                 {HomeTrigger}, {"sp1"})
    \/ WaveSteps({{"Lsp"}}, {{}, {<<"a">>}}, {FALSE})

SpecWave == InitWave /\ [][NextWave]_vars

(* SpecColl: one wave of two provider tasks with every kind of response, so  *)
(* that the order of finishing, joining and reconciling can differ.           *)
InitColl == InitWith("Insert", {"w1"}, {"none"})
NextColl ==
    \/ HookSteps({"move_char_left"}, {"a"})
    \/ ShowSteps({[p \in Providers |-> {<<"a", "a">>}]}, {LspIncomplete},
                 {HomeTrigger}, {"sp1"})
    \/ WaveSteps({{"Lsp", "Path"}}, {{}, {<<"a">>}}, BOOLEAN)

SpecColl == InitColl /\ [][NextColl]_vars

(* SpecLoop: the collecting loop of one wave against session ends, with the   *)
(* fairness under which its termination is claimed.                           *)
InitLoop == InitWith("Insert", {"w1"}, {"none"})
NextLoop ==
    \/ Command("move_char_left")
    \/ RunCallback
    \/ ShowSteps({[p \in Providers |-> {<<"a", "a">>}]}, {LspIncomplete},
                 {HomeTrigger}, {"sp1"})
    \/ WaveSteps({{"Lsp", "Path"}}, {{}, {<<"a">>}}, BOOLEAN)

SpecLoop == InitLoop /\ [][NextLoop]_vars

\* every pending task eventually finishes or fails, the runtime polls the
\* collecting future whenever it can go on (the job channel serves its senders
\* in turn), and the owner thread runs its callbacks and keeps taking jobs
FairLoop ==
    /\ SpecLoop
    /\ \A p \in Providers :
          WF_vars(TaskFail("w1", p)
                  \/ \E items \in {{}, {<<"a">>}}, inc \in BOOLEAN :
                        TaskFinish("w1", p, items, inc))
    /\ SF_vars(CollectorDiscard("w1") \/ CollectorForward("w1")
               \/ CollectorPanic("w1") \/ CollectorEnd("w1"))
    /\ WF_vars(RunCallback)
    /\ SF_vars(RunReplaceClosure \/ RunShowCompletion)

(* SpecShow: show_completion against every mode, view, document, trigger,     *)
(* savepoint and signature-help placement.                                    *)
InitShow == InitWith("Normal", {"w1"}, {"none"})
ShowCommands ==
    {"insert_mode", "normal_mode", "goto_next_buffer", "rotate_view",
     "move_char_left"}

NextShow ==
    \/ HookSteps(ShowCommands, {"a"})
    \/ ModeSwitch
    \/ ShowSteps({EmptyItems, [p \in Providers |-> {<<"a">>}]},
                 {[p \in Providers |-> FALSE]}, Triggers, SavePoints)
    \/ \E s \in {"none", "overlap", "apart"} : SignatureHelp(s)

SpecShow == InitShow /\ [][NextShow]_vars

(* SpecCmd: every command, typed character and mode switch, with and without  *)
(* a session.                                                                 *)
InitCmd == InitWith("Normal", {"w1"}, {"none"})
NextCmd ==
    \/ HookSteps(Commands, TypedChars)
    \/ ModeSwitch
    \/ ShowSteps({[p \in Providers |-> Items]}, {[p \in Providers |-> FALSE]},
                 {HomeTrigger}, {"sp1"})

SpecCmd == InitCmd /\ [][NextCmd]_vars

(* SpecIns: characters typed into an open session, with items that match a    *)
(* non-word character and incomplete lists that are asked for again.          *)
InsBatches ==
    {[p \in Providers |-> IF p = "Lsp" THEN {<<"a", "a">>, <<".", "a">>} ELSE {}],
     [p \in Providers |-> IF p = "Lsp" THEN {<<".", "a">>} ELSE {}]}

InitIns == InitWith("Insert", {"w1", "w2"}, {"none"})
NextIns ==
    \/ HookSteps({"delete_char_backward"}, TypedChars)
    \/ ShowSteps(InsBatches, IncompleteLists, {HomeTrigger}, {"sp1"})
    \/ \E w \in WaveIds : TaskFinish(w, "Lsp", {<<"a", "a">>}, TRUE)
    \/ \E w \in WaveIds : CollectorForward(w)
    \/ \E w \in WaveIds : CollectorEnd(w)
    \/ RunReplaceClosure

SpecIns == InitIns /\ [][NextIns]_vars

(* SpecTrig: trigger_auto_completion on every bounded text and configuration. *)
ServerChoices == {{}, {{}}, {{<<".">>}}, {{<<".">>}, {<<":", ":">>}}}
Configs ==
    [auto_completion : BOOLEAN, completion_trigger_len : 0..MaxTrigLen,
     servers : ServerChoices, path_completion : BOOLEAN, windows : BOOLEAN]

InitTrig ==
    /\ mode = "Insert"
    /\ curView \in Views
    /\ curDoc = "d1"
    /\ text \in SeqsUpTo(Chars, MaxTrigText)
    /\ config \in Configs
    /\ completion = NoPopup
    /\ last_completion = FALSE
    /\ sigHelp = "none"
    /\ waves = [w \in {"w1"} |-> IdleWave]
    /\ newest = [c \in Controllers |-> "none"]
    /\ jobs = <<>>
    /\ callbacks = <<>>
    /\ pendingSwitch = "none"
    /\ emitted = <<>>
    /\ last = [op |-> "init"]

\* one call of trigger_auto_completion(tx, editor, trigger_char_only)
EvaluateTrigger(trigger_char_only) ==
    /\ emitted' = TriggerAutoCompletion(config, text, curView, curDoc, mode,
                                        trigger_char_only, "call")
    /\ last' = [op |-> "trigger_auto_completion",
                trigger_char_only |-> trigger_char_only]
    /\ UNCHANGED <<mode, curView, curDoc, text, config, completion,
                   last_completion, sigHelp, waves, newest, jobs, callbacks,
                   pendingSwitch>>

NextTrig == \E tco \in BOOLEAN : EvaluateTrigger(tco)

SpecTrig == InitTrig /\ [][NextTrig]_vars

(***************************** the claims **********************************)
Kinds(evs) == {evs[i].kind : i \in 1..Len(evs)}

\* the text before the cursor ends with a trigger string some provider declares
EndsWithDeclaredTrigger ==
    \E ls \in config.servers : \E t \in ls :
        /\ Len(t) <= Len(text)
        /\ \A k \in 1..Len(t) : text[Len(text) - Len(t) + k] = t[k]

\* the byte before the cursor is a path separator of the platform
SeparatorBeforeCursor ==
    /\ text # <<>>
    /\ text[Len(text)] \in (IF config.windows THEN {"/", "\\"} ELSE {"/"})

TriggerCharDue ==
    EndsWithDeclaredTrigger \/ (SeparatorBeforeCursor /\ config.path_completion)

\* C6: one call of trigger_auto_completion sends at most one event: nothing when
\* auto_completion is off; otherwise TriggerChar exactly when the text ends with a
\* declared trigger string or a path separator (path completion enabled); and
\* AutoTrigger only when neither holds and trigger_char_only is false.
C6_TriggerPriority ==
    last.op = "trigger_auto_completion" =>
        /\ Len(emitted) <= 1
        /\ Kinds(emitted) \subseteq {"TriggerChar", "AutoTrigger"}
        /\ ~config.auto_completion => emitted = <<>>
        /\ config.auto_completion =>
              ("TriggerChar" \in Kinds(emitted) <=> TriggerCharDue)
        /\ "AutoTrigger" \in Kinds(emitted) =>
              ~TriggerCharDue /\ ~last.trigger_char_only

\* a trigger character typed after enough word characters yields TriggerChar
C6_Witness ==
    /\ last.op = "trigger_auto_completion"
    /\ ~last.trigger_char_only
    /\ text = <<"a", "a", ".">>
    /\ config.completion_trigger_len = 2
    /\ Kinds(emitted) = {"TriggerChar"}

\* C7: AutoTrigger is sent only when completion_trigger_len characters precede the
\* cursor and all of them are word characters (none when fewer precede it).
C7_AutoTriggerNeedsTriggerLenWordChars ==
    (last.op = "trigger_auto_completion" /\ "AutoTrigger" \in Kinds(emitted)) =>
        /\ Len(text) >= config.completion_trigger_len
        /\ \A k \in 1..config.completion_trigger_len :
              char_is_word(text[Len(text) - k + 1])

\* the step is the closure of replace_completions at the head of the job queue
ReplaceStep == jobs # <<>> /\ Head(jobs).kind = "replace" /\ jobs' = Tail(jobs)

\* the step is show_completion at the head of the job queue
ShowStep == jobs # <<>> /\ Head(jobs).kind = "show" /\ jobs' = Tail(jobs)

UiUnchanged ==
    /\ completion' = completion
    /\ last_completion' = last_completion
    /\ sigHelp' = sigHelp
    /\ emitted' = <<>>

\* C1: a reconciliation closure that runs while its wave's handle is canceled leaves
\* the popup (items, incomplete entries, open or closed) as it was and sends no
\* event, for an empty and for a non-empty response.
C1_CanceledClosureChangesNothing ==
    [][(ReplaceStep /\ waves[Head(jobs).wave].canceled) => UiUnchanged]_vars

\* a non-empty response reached an open popup with its handle canceled
C1_Witness ==
    /\ last.op = "replace_closure"
    /\ last.canceled
    /\ last.open
    /\ last.items # {}
    /\ completion.open

\* C2: a closure changes the popup or sends an event only if its wave holds the
\* handle its controller gave out last and that handle is not canceled; the
\* responses of a superseded wave are dropped wherever they were when it was
\* superseded (task pending, response joined, closure queued).
C2_OnlyNewestWaveChangesPopup ==
    [][(ReplaceStep /\ (completion' # completion \/ emitted' # <<>>)) =>
          /\ ~waves[Head(jobs).wave].canceled
          /\ newest[waves[Head(jobs).wave].ctl] = Head(jobs).wave]_vars

\* a non-empty response of a wave superseded by incomplete_list_controller.restart()
\* was dropped while the wave that superseded it is running
C2_Witness ==
    /\ last.op = "replace_closure"
    /\ last.canceled
    /\ last.open
    /\ last.items # {}
    /\ completion.open
    /\ waves[last.wave].canceled
    /\ waves[last.wave].ctl = "incomplete"
    /\ \E w \in WaveIds \ {last.wave} :
          /\ newest[waves[last.wave].ctl] = w
          /\ waves[w].status = "running"
          /\ ~waves[w].canceled

\* C3: show_completion called while a popup is open leaves the session (items,
\* incomplete entries, savepoint) and the signature help as they were and drops
\* the batch.
C3_FirstWriterWins ==
    [][(ShowStep /\ completion.open) => UiUnchanged]_vars

\* a batch with items and another savepoint met an open popup and an overlapping
\* signature help
C3_Witness ==
    /\ last.op = "show_completion"
    /\ last.result = "occupied"
    /\ last.nonempty
    /\ completion.open
    /\ completion.savepoint # last.savepoint
    /\ sigHelp = "overlap"

\* C4: show_completion opens a popup only in insert mode with the current view and
\* document equal to the trigger's, changes nothing otherwise, and does not reject
\* a batch for its trigger position.
C4_ShowChecksModeViewDoc ==
    [][ShowStep =>
          LET job == Head(jobs)
              fresh == /\ mode = "Insert"
                       /\ curView = job.trigger.view
                       /\ curDoc = job.trigger.doc
          IN /\ (completion'.open /\ ~completion.open) => fresh
             /\ ~fresh => UiUnchanged
             /\ (fresh /\ ~completion.open /\ BatchHasItems(job.items)) =>
                    completion'.open]_vars

\* a batch whose trigger position is not the cursor position opened the popup
C4_Witness ==
    /\ last.op = "show_completion"
    /\ last.result = "opened"
    /\ last.trigger.pos # Len(text)
    /\ completion.open

\* C5 as stated: no CompletionEvent of any kind is sent while the mode is not Insert.
C5_NoEventOutsideInsert ==
    \A i \in 1..Len(emitted) : emitted[i].mode = "Insert"

\* C5 amended: outside insert mode the only event sent is the one Cancel of the
\* OnModeSwitch hook for a switch out of insert mode.
C5_OnlyLeaveCancelOutsideInsert ==
    \A i \in 1..Len(emitted) :
        emitted[i].mode # "Insert" =>
            /\ emitted[i].kind = "Cancel"
            /\ emitted[i].by = "mode_switch"
            /\ last.op = "mode_switch"
            /\ last.old_mode = "Insert"
            /\ Len(emitted) = 1

\* the mode switch hook sent Cancel with the editor already out of insert mode
C5_Witness ==
    /\ last.op = "mode_switch"
    /\ last.old_mode = "Insert"
    /\ mode # "Insert"
    /\ Len(emitted) = 1
    /\ emitted[1].kind = "Cancel"
    /\ emitted[1].mode # "Insert"

\* the collecting loop of wave w takes the response at the head of its joined tasks
Consumes(w) ==
    /\ waves[w].status = "running"
    /\ waves[w].done # <<>>
    /\ Head(waves[w].done).ok
    /\ waves'[w].status = "running"
    /\ waves'[w].done = Tail(waves[w].done)

\* C8 as stated: a response is discarded iff it is empty and not incomplete, for both
\* values of the flag; every other response is forwarded.
C8_DiscardIffEmptyAndComplete ==
    [][\A w \in WaveIds : Consumes(w) =>
          LET r == Head(waves[w].done)
          IN (jobs' = jobs) <=> (r.items = {} /\ ~r.incomplete)]_vars

\* C8 amended: a response is discarded iff the flag is false and the response is empty
\* and not incomplete; every other response is forwarded as a closure of its wave.
C8_DiscardIffFlagOffEmptyAndComplete ==
    [][\A w \in WaveIds : Consumes(w) =>
          LET r == Head(waves[w].done)
          IN /\ (jobs' = jobs) <=>
                    (~waves[w].incomplete /\ r.items = {} /\ ~r.incomplete)
             /\ jobs' # jobs =>
                    jobs' = Append(jobs, [kind |-> "replace", wave |-> w,
                                          response |-> r])]_vars

\* a wave collected with the flag set forwarded an empty, complete response
C8_Witness ==
    \E i \in 1..Len(jobs) :
        /\ jobs[i].kind = "replace"
        /\ jobs[i].response.items = {}
        /\ ~jobs[i].response.incomplete
        /\ waves[jobs[i].wave].incomplete

\* C9: the closures of a wave run in the order in which their tasks finished, each
\* once: every closure has a higher finishing rank than the one before it, and when
\* the loop has ended and no closure is queued as many ran as were dispatched.
C9_ReconciledInFinishingOrder ==
    /\ [][ReplaceStep =>
             Head(jobs).response.n > waves[Head(jobs).wave].lastn]_vars
    /\ [](\A w \in WaveIds :
             /\ waves[w].nrec <= waves[w].fwd
             /\ (waves[w].status = "done" /\ ~HasJob(w)) =>
                    waves[w].nrec = waves[w].fwd)

\* both responses of a wave were reconciled, the second to finish last
C9_Witness ==
    /\ last.op = "replace_closure"
    /\ last.n = 2
    /\ waves[last.wave].nrec = 2
    /\ waves[last.wave].fwd = 2

\* C10: if every pending task finishes, the collecting loop ends, canceled or not;
\* once ended it dispatches nothing more; it ends normally only with no task
\* pending; and canceling its handle neither ends it nor aborts its tasks.
C10_LoopEndsWhenTasksFinish ==
    /\ (waves["w1"].status = "running") ~>
           (waves["w1"].status \in {"done", "panicked"})
    /\ [][\A w \in WaveIds :
             (waves[w].status \in {"done", "panicked"}
              /\ waves'[w].status = waves[w].status) =>
                 waves'[w].fwd = waves[w].fwd]_vars
    /\ [](\A w \in WaveIds :
             waves[w].status = "done" =>
                 waves[w].pending = {} /\ waves[w].done = <<>>)
    /\ [][\A w \in WaveIds :
             (waves[w].status = "running" /\ ~waves[w].canceled
              /\ waves'[w].canceled) =>
                 /\ waves'[w].status = "running"
                 /\ waves'[w].pending = waves[w].pending]_vars

\* a canceled wave ended normally after dispatching a response
C10_Witness ==
    /\ waves["w1"].status = "done"
    /\ waves["w1"].canceled
    /\ waves["w1"].fwd > 0

\* the collecting loop of wave w joins the failed task at the head of its joined tasks
JoinsFailure(w) ==
    /\ waves[w].status = "running"
    /\ waves[w].done # <<>>
    /\ ~Head(waves[w].done).ok
    /\ waves'[w].done # waves[w].done
    /\ waves'[w].nfin = waves[w].nfin

\* C11: when the collecting loop joins a failed task it ends in the panicked state
\* instead of skipping it: the tasks and responses that finished after the failure are
\* dropped, every closure of the wave that is queued or has run finished before the
\* failure, the popup is left as the earlier responses made it, and a panicked loop
\* dispatches nothing more.
C11_FailedTaskEndsLoop ==
    /\ [][\A w \in WaveIds : JoinsFailure(w) =>
              LET f == Head(waves[w].done)
              IN /\ waves'[w].status = "panicked"
                 /\ waves'[w].pending = {}
                 /\ waves'[w].done = <<>>
                 /\ waves'[w].fwd = waves[w].fwd
                 /\ jobs' = jobs
                 /\ \A i \in 1..Len(jobs) :
                       (jobs[i].kind = "replace" /\ jobs[i].wave = w) =>
                           jobs[i].response.n < f.n
                 /\ waves[w].lastn < f.n
                 /\ completion' = completion
                 /\ emitted' = emitted]_vars
    /\ [][\A w \in WaveIds :
             (waves[w].status = "panicked" /\ waves'[w].status = "panicked") =>
                 /\ waves'[w].fwd = waves[w].fwd
                 /\ waves'[w].nfin = waves[w].nfin]_vars

\* a wave panicked on its second task after the response of its first was merged
\* into the popup, which is still open with that response in it
C11_Witness ==
    \E w \in WaveIds :
        /\ waves[w].status = "panicked"
        /\ waves[w].nfin = 2
        /\ waves[w].fwd = 1
        /\ waves[w].nrec = 1
        /\ ~waves[w].canceled
        /\ completion.open
        /\ \E p \in Providers : completion.items[p] = {<<"a">>}

\* the step runs command c and its PostCommand hook
CommandStep(c) ==
    /\ OwnerIdle
    /\ last' = [op |-> "post_command", command |-> c]
    /\ UNCHANGED <<waves, jobs>>
    /\ mode' = CommandMode(c, mode)

\* the step runs the clear_completions callback at the head of cx.callback
ClearStep ==
    /\ pendingSwitch = "none"
    /\ callbacks # <<>>
    /\ Head(callbacks).kind = "clear"
    /\ callbacks' = Tail(callbacks)

KeepCommands == {"delete_word_forward", "delete_char_forward", "completion"}

\* C12: with a session active and the editor in insert mode when the PostCommand hook
\* runs, the hook sends no event and leaves the popup as it is; after
\* delete_word_forward, delete_char_forward and completion it queues nothing; after
\* every command other than these and delete_char_backward it queues the one
\* clear_completions callback, and that callback closes the popup.
C12_ActiveSessionCommands ==
    /\ [][\A c \in Commands :
             (CommandStep(c) /\ mode' = "Insert" /\ last_completion) =>
                 /\ emitted' = <<>>
                 /\ completion' = completion
                 /\ last_completion' = last_completion
                 /\ c \in KeepCommands => callbacks' = <<>>
                 /\ c \notin KeepCommands \cup {"delete_char_backward"} =>
                        callbacks' = <<ClearCallback>>]_vars
    /\ [][ClearStep =>
             /\ ~completion'.open
             /\ ~last_completion'
             /\ emitted' = <<>>]_vars

\* a movement command met an open popup: its hook sent nothing and queued the one
\* clear_completions callback
C12_Witness ==
    /\ last = [op |-> "post_command", command |-> "move_char_left"]
    /\ mode = "Insert"
    /\ completion.open
    /\ last_completion
    /\ callbacks = <<ClearCallback>>
    /\ emitted = <<>>

DeleteCommands == {"delete_char_backward", "delete_word_forward", "delete_char_forward"}
QuietCommands == {"completion", "insert_mode", "append_mode"}

\* C13: with no session and the editor in insert mode when the PostCommand hook runs,
\* the three delete commands send exactly one DeleteText with the cursor the command
\* left; completion, insert_mode and append_mode send nothing; every other command
\* sends exactly one Cancel; the popup state and cx.callback are left alone.
C13_InactiveSessionCommands ==
    [][\A c \in Commands :
          (CommandStep(c) /\ mode' = "Insert" /\ ~last_completion) =>
              /\ completion' = completion
              /\ last_completion' = last_completion
              /\ callbacks' = <<>>
              /\ c \in DeleteCommands =>
                     /\ Len(emitted') = 1
                     /\ emitted'[1].kind = "DeleteText"
                     /\ emitted'[1].cursor = Len(text')
              /\ c \in QuietCommands => emitted' = <<>>
              /\ c \notin DeleteCommands \cup QuietCommands =>
                     /\ Len(emitted') = 1
                     /\ emitted'[1].kind = "Cancel"]_vars

\* delete_char_backward without a session sent DeleteText with the new cursor
C13_Witness ==
    /\ last = [op |-> "post_command", command |-> "delete_char_backward"]
    /\ mode = "Insert"
    /\ ~completion.open
    /\ text = <<"a">>
    /\ Len(emitted) = 1
    /\ emitted[1].kind = "DeleteText"
    /\ emitted[1].cursor = 1

\* the step runs the update_completion_filter callback at the head of cx.callback
\* with a popup open
FilterStep(c) ==
    /\ pendingSwitch = "none"
    /\ callbacks # <<>>
    /\ Head(callbacks) = FilterCallback(c)
    /\ callbacks' = Tail(callbacks)
    /\ completion.open

\* what the trigger evaluator is to send for the editor as it is: TriggerChar after a
\* declared trigger or path separator, else AutoTrigger after completion_trigger_len
\* word characters
EvaluatorKinds ==
    IF ~config.auto_completion THEN {}
    ELSE IF TriggerCharDue THEN {"TriggerChar"}
    ELSE IF /\ Len(text) >= config.completion_trigger_len
            /\ \A k \in 1..config.completion_trigger_len :
                  char_is_word(text[Len(text) - k + 1])
         THEN {"AutoTrigger"}
         ELSE {}

\* C14 as stated: after delete_char_backward with a session the filter loses its last
\* character, and if that closes the session the trigger evaluator is re-run: the
\* callback sends what the evaluator sends for the text now before the cursor.
C14_BackwardDeleteRetriggers ==
    [][FilterStep(NoArg) =>
          /\ completion'.open =>
                 /\ completion'.filter = Front(completion.filter)
                 /\ emitted' = <<>>
          /\ ~completion'.open =>
                 /\ ~last_completion'
                 /\ Kinds(emitted') = EvaluatorKinds]_vars

\* C14 amended: after delete_char_backward with a session the filter loses its last
\* character; if that leaves nothing to show the session is cleared, and in both
\* cases the callback sends no event: the trigger evaluator is not re-run.
C14_BackwardDeleteClosesSilently ==
    [][FilterStep(NoArg) =>
          /\ emitted' = <<>>
          /\ completion'.open =>
                 /\ completion'.filter = Front(completion.filter)
                 /\ ~IsEmpty(completion')
          /\ ~completion'.open =>
                 /\ ~last_completion'
                 /\ IsEmpty(UpdateFilter(completion, NoArg))]_vars

\* a backward delete closed the session with a trigger character before the cursor,
\* and nothing was sent
C14_Witness ==
    /\ last = [op |-> "callback", kind |-> "update_filter", c |-> NoArg, open |-> TRUE]
    /\ mode = "Insert"
    /\ ~completion.open
    /\ text = <<".">>
    /\ IsTriggerChar(config, text)
    /\ config.auto_completion
    /\ emitted = <<>>

\* no item of the popup passes the filter once ch is appended to it
NothingMatchesWith(ch) ==
    \A p \in Providers : \A it \in completion.items[p] :
        ~Matches(Append(completion.filter, ch), it)

\* what trigger_auto_completion(.., false) sends for the editor as it is
RetriggerKinds ==
    Kinds(TriggerAutoCompletion(config, text, curView, curDoc, mode, FALSE, "claim"))

\* C15: the callback of a character typed into a session appends it to the filter; if
\* then nothing matches, or the character is not a word character, the session is
\* closed and trigger_auto_completion(.., false) is run; otherwise the session stays
\* open with the longer filter, nothing is sent, every handle the incomplete-list
\* controller gave out before is canceled, and the providers with an incomplete list
\* are asked again in a new wave that holds the fresh handle.
C15_InsertedCharUpdatesFilter ==
    [][\A ch \in Chars : FilterStep(Some(ch)) =>
          IF NothingMatchesWith(ch) \/ ~char_is_word(ch)
          THEN /\ ~completion'.open
               /\ ~last_completion'
               /\ Kinds(emitted') = RetriggerKinds
               /\ Len(emitted') <= 1
          ELSE /\ completion'.open
               /\ completion'.filter = Append(completion.filter, ch)
               /\ completion'.items = completion.items
               /\ emitted' = <<>>
               /\ \A w \in WaveIds :
                     (waves[w].status # "unused" /\ waves[w].ctl = "incomplete") =>
                         (waves'[w].canceled
                          \/ (newest'["incomplete"] = w /\ waves[w].status = "done"))
               /\ IncompleteProviders(completion) # {} =>
                     LET w == newest'["incomplete"]
                     IN /\ w \in WaveIds
                        /\ waves'[w].status = "running"
                        /\ waves'[w].ctl = "incomplete"
                        /\ waves'[w].incomplete
                        /\ ~waves'[w].canceled
                        /\ waves'[w].pending = IncompleteProviders(completion)
                        /\ waves'[w].nfin = 0
                        /\ waves[w].status # "running"]_vars

\* a non-word character that an item still matches closed the session and the
\* evaluator answered it with TriggerChar
C15_Witness ==
    /\ last = [op |-> "callback", kind |-> "update_filter", c |-> Some("."),
               open |-> TRUE]
    /\ ~completion.open
    /\ text = <<".">>
    /\ Kinds(emitted) = {"TriggerChar"}

\* the step runs the OnModeSwitch hook for the switch from old_mode to the mode the
\* editor is in
ModeSwitchStep(old_mode) ==
    /\ pendingSwitch = old_mode
    /\ old_mode # "none"
    /\ pendingSwitch' = "none"

\* C16: the OnModeSwitch hook of a switch out of insert mode sends exactly one Cancel
\* and queues clear_completions, session or not, and the callback closes the popup;
\* the hook of a switch into insert mode from another mode sends what
\* trigger_auto_completion(.., false) sends, and no Cancel; the hook of any other
\* switch sends nothing; the last two queue nothing, and no hook changes the popup.
C16_ModeSwitchTransitions ==
    /\ [][\A old_mode \in Modes : ModeSwitchStep(old_mode) =>
             /\ completion' = completion
             /\ last_completion' = last_completion
             /\ IF old_mode = "Insert"
                THEN /\ Len(emitted') = 1
                     /\ emitted'[1].kind = "Cancel"
                     /\ callbacks' = Append(callbacks, ClearCallback)
                ELSE IF mode = "Insert"
                THEN /\ Kinds(emitted') = RetriggerKinds
                     /\ Len(emitted') <= 1
                     /\ callbacks' = callbacks
                ELSE /\ emitted' = <<>>
                     /\ callbacks' = callbacks]_vars
    /\ [][(ClearStep /\ last.op = "mode_switch") =>
             ~completion'.open /\ ~last_completion']_vars

\* the popup that was open when the editor left insert mode was closed by the
\* callback the hook queued
C16_Witness ==
    /\ last = [op |-> "callback", kind |-> "clear", c |-> NoArg, open |-> TRUE]
    /\ mode = "Normal"
    /\ ~completion.open
    /\ callbacks = <<>>

\* the items of the popup with the response's provider contribution replaced
MergedItems(r) == [completion.items EXCEPT ![r.provider] = r.items]

\* C17: a closure that runs with a popup open and its handle not canceled replaces
\* its provider's items; if then no item passes the filter, the same step closes the
\* session and sends what trigger_auto_completion(.., false) sends; otherwise the
\* session stays open with the merged items and nothing is sent.
C17_MergedEmptyClosesAndRetriggers ==
    [][(ReplaceStep /\ completion.open /\ ~waves[Head(jobs).wave].canceled) =>
          LET r == Head(jobs).response
              merged == MergedItems(r)
          IN IF \A p \in Providers : \A it \in merged[p] :
                    ~Matches(completion.filter, it)
             THEN /\ ~completion'.open
                  /\ ~last_completion'
                  /\ Kinds(emitted') = RetriggerKinds
                  /\ Len(emitted') <= 1
             ELSE /\ completion'.open
                  /\ completion'.items = merged
                  /\ completion'.filter = completion.filter
                  /\ last_completion' = last_completion
                  /\ emitted' = <<>>]_vars

\* an empty response emptied the popup opened after a trigger character: the session
\* was closed and TriggerChar sent in the same step
C17_Witness ==
    /\ last.op = "replace_closure"
    /\ last.open
    /\ ~last.canceled
    /\ last.items = {}
    /\ ~completion.open
    /\ ~last_completion
    /\ Kinds(emitted) = {"TriggerChar"}

\* C18: show_completion removes the signature help popup exactly when it accepts the
\* batch, set_completion yields an area, and a signature help popup exists whose
\* area intersects it; in every other case (areas apart, no area, batch rejected as
\* stale or for an open popup) the signature help popup is left as it was.
C18_SignatureHelpRemovedIffIntersects ==
    [][ShowStep =>
          LET job == Head(jobs)
              accepted == /\ mode = "Insert"
                          /\ curView = job.trigger.view
                          /\ curDoc = job.trigger.doc
                          /\ ~completion.open
              area == accepted /\ \E p \in Providers : job.items[p] # {}
          IN IF area /\ sigHelp = "overlap"
             THEN sigHelp' = "none"
             ELSE sigHelp' = sigHelp]_vars

\* a popup was opened over a signature help popup it intersects, which is gone
C18_Witness ==
    /\ last.op = "show_completion"
    /\ last.result = "opened"
    /\ last.sig = "overlap"
    /\ sigHelp = "none"
    /\ completion.open

\* C19: a closure of replace_completions that runs while no popup exists changes
\* nothing and sends nothing, whatever its response and handle; and the popup goes
\* from closed to open only in a step of show_completion.
C19_ReplaceNeverOpensSession ==
    /\ [][(ReplaceStep /\ ~completion.open) => UiUnchanged]_vars
    /\ [][(~completion.open /\ completion'.open) => ShowStep]_vars
    /\ [][(~last_completion /\ last_completion') => ShowStep]_vars

\* a response with items and a live handle found no popup and was dropped
C19_Witness ==
    /\ last.op = "replace_closure"
    /\ ~last.open
    /\ ~last.canceled
    /\ last.items # {}
    /\ ~waves[last.wave].canceled
    /\ ~completion.open
    /\ ~last_completion
    /\ emitted = <<>>

\* C20: whenever the hooks of the last key have run and no callback they queued is
\* pending, an open popup (and a set last_completion) implies insert mode.
C20_PopupOpenOnlyInInsertMode ==
    OwnerIdle => /\ completion.open => mode = "Insert"
                 /\ last_completion => mode = "Insert"

\* the editor left insert mode with a popup open and a first batch still queued; the
\* callback of the mode switch has closed the popup
C20_Witness ==
    /\ last = [op |-> "callback", kind |-> "clear", c |-> NoArg, open |-> TRUE]
    /\ mode # "Insert"
    /\ OwnerIdle
    /\ ~completion.open
    /\ jobs # <<>>
    /\ Head(jobs).kind = "show"
    /\ BatchHasItems(Head(jobs).items)

====
